---------------------------- MODULE Spec2Model ----------------------------
(***************************************************************************)
(* CheapFinder API: the per-client rate limiter (src/src/server.js), the   *)
(* Etsy OAuth/PKCE helper routes (src/src/oauth_etsy.js) and the search    *)
(* orchestrators (src/src/server.js, src/src/usecases.js).                 *)
(*                                                                         *)
(* Units: time in milliseconds; money in mills (1/1000 of a currency unit, *)
(* so that rounding to 2 decimals does something); ratings in tenths.      *)
(***************************************************************************)
EXTENDS Integers, Sequences, FiniteSets, TLC

VARIABLES
    now,        \* Date.now()
    ticks,      \* number of clock advances so far (bounded)
    hits,       \* server.js: Map ip -> { count, ts }
    rlRes,      \* outcome of the last request at the limiter
    winStart,   \* observer: time of the first request of the identity's window
    winSeen,    \* observer: requests (admitted or not) seen in that window
    lastOf,     \* observer: time and outcome of the identity's latest request
    admitLog,   \* observer: time -> number of admitted requests, last window span
    tracing,    \* observer switch: is admitLog kept in this run
    stateStore, \* oauth_etsy.js: Map state -> code_verifier
    timers,     \* pending setTimeout callbacks: records [state, due]
    issued,     \* observer: state -> time at which /start produced it
    fired,      \* observer: states whose TTL timer has run
    used,       \* observer: states for which a callback passed the lookup
    exchanges,  \* token-endpoint POSTs made so far
    pending,    \* callbacks awaiting the token endpoint's answer
    oauthRes,   \* last response of an OAuth route
    env,        \* process.env: MOCK_MODE and the Etsy credentials
    searchRes   \* last result of a search operation

rateVars   == <<now, ticks, hits, rlRes, winStart, winSeen, lastOf, admitLog, tracing>>
oauthVars  == <<stateStore, timers, issued, fired, used, exchanges, pending, oauthRes>>
searchVars == <<env, searchRes>>
vars       == <<rateVars, oauthVars, searchVars>>

-----------------------------------------------------------------------------
(* Program constants *)

WINDOW_MS == 60000
MAX_REQ == 30
TTL_MS == 600000
ETA_DEFAULT == 999
LIMIT_DEFAULT == 10
LIMIT_MAX == 100

(* Bounds of the model *)

MaxTicks == 2
MaxExtra == 2
MaxStates == 2
MaxExchanges == 2
MaxAdapterItems == 2

NoRes == [route |-> "none"]

-----------------------------------------------------------------------------
(* Clock *)

\* the clock advances explored around the limiter's window and the state TTL
WindowSteps == {1, WINDOW_MS}
TtlSteps == {TTL_MS}

\* entries of the admit log that can still share a span of one window
\* length with a request made at time t
Recent(log, t) == [u \in {v \in DOMAIN log : v >= t - WINDOW_MS} |-> log[u]]

Tick(d) ==
    /\ ticks < MaxTicks
    /\ now' = now + d
    /\ ticks' = ticks + 1
    /\ admitLog' = Recent(admitLog, now + d)
    /\ UNCHANGED <<hits, rlRes, winStart, winSeen, lastOf, tracing>>
    /\ UNCHANGED <<oauthVars, searchVars>>

-----------------------------------------------------------------------------
(* Rate limiter: server.js lines 24-43 *)

\* String.prototype.trim on the header values that occur
Trim(s) ==
    CASE s = " a " -> "a"
      [] s = "  "  -> ""
      [] OTHER     -> s

\* req.headers["x-forwarded-for"]?.split(",")[0]?.trim(); an absent header
\* is the empty sequence, and undefined is "" (both are falsy)
FirstForwarded(xff) == IF xff = <<>> THEN "" ELSE Trim(xff[1])

ClientIp(req) ==
    IF FirstForwarded(req.xff) # "" THEN FirstForwarded(req.xff)
    ELSE IF req.remote # "" THEN req.remote
    ELSE "unknown"

Requests ==
    { [xff |-> <<" a ", "b">>, remote |-> "b"],
      [xff |-> <<"  ">>, remote |-> "a"],
      [xff |-> <<>>, remote |-> ""] }

OneClient == { r \in Requests : ClientIp(r) = "a" }

HasRec(ip) == ip \in DOMAIN hits

\* variant: the window is taken to end one millisecond early
WindowElapsedEarly(rec, t) == t - rec.ts >= WINDOW_MS

WindowElapsed(rec, t) == t - rec.ts > WINDOW_MS

\* variant: the capacity test lets one more request through
AtCapacityLoose(rec) == rec.count > MAX_REQ

AtCapacity(rec) == rec.count >= MAX_REQ

\* hits.set(ip, v) / rec.count += 1
SetHit(ip, v) == [k \in DOMAIN hits \cup {ip} |-> IF k = ip THEN v ELSE hits[k]]

\* the middleware's effect on hits and its outcome
Limiter(ip) ==
    IF ~HasRec(ip) \/ WindowElapsed(hits[ip], now)
    THEN [hits |-> SetHit(ip, [count |-> 1, ts |-> now]), status |-> "next"]
    ELSE IF AtCapacity(hits[ip])
    THEN [hits |-> hits, status |-> "429"]
    ELSE [hits |-> SetHit(ip, [count |-> hits[ip].count + 1, ts |-> hits[ip].ts]),
          status |-> "next"]

\* observer: the fixed window the request falls in, counted from the first
\* request of the window and independent of the hits map
NewWindow(ip) == ip \notin DOMAIN winStart \/ now - winStart[ip] > WINDOW_MS

Put(f, k, v) == [x \in DOMAIN f \cup {k} |-> IF x = k THEN v ELSE f[x]]

Request(req) ==
    LET ip == ClientIp(req)
        out == Limiter(ip)
        seen == IF NewWindow(ip) THEN 1 ELSE winSeen[ip] + 1
    IN  /\ seen <= MAX_REQ + MaxExtra
        /\ hits' = out.hits
        /\ rlRes' = [route |-> "limiter", ip |-> ip, status |-> out.status, t |-> now,
                     since |-> IF ip \in DOMAIN winStart THEN winStart[ip] ELSE -1,
                     prev |-> IF ip \in DOMAIN lastOf THEN lastOf[ip] ELSE NoRes]
        /\ lastOf' = Put(lastOf, ip, [route |-> "limiter", status |-> out.status, t |-> now])
        /\ winStart' = IF NewWindow(ip) THEN Put(winStart, ip, now) ELSE winStart
        /\ winSeen' = Put(winSeen, ip, seen)
        /\ admitLog' =
             IF tracing /\ out.status = "next"
             THEN Put(admitLog, now, IF now \in DOMAIN admitLog THEN admitLog[now] + 1 ELSE 1)
             ELSE admitLog
        /\ UNCHANGED <<now, ticks, tracing>>
        /\ UNCHANGED <<oauthVars, searchVars>>

-----------------------------------------------------------------------------
EmptyMap == [x \in {} |-> 0]

InitCommon ==
    /\ now = 0
    /\ ticks = 0
    /\ hits = EmptyMap
    /\ rlRes = NoRes
    /\ winStart = EmptyMap
    /\ winSeen = EmptyMap
    /\ lastOf = EmptyMap
    /\ admitLog = EmptyMap
    /\ stateStore = EmptyMap
    /\ timers = {}
    /\ issued = EmptyMap
    /\ fired = {}
    /\ used = {}
    /\ exchanges = <<>>
    /\ pending = {}
    /\ oauthRes = NoRes
    /\ searchRes = NoRes

EnvDefault == [MOCK_MODE |-> TRUE, ETSY_API_KEY |-> FALSE, ETSY_ACCESS_TOKEN |-> FALSE]

RateInit == InitCommon /\ tracing = FALSE /\ env = EnvDefault
RateNext == (\E req \in Requests : Request(req)) \/ (\E d \in WindowSteps : Tick(d))
RateSpec == RateInit /\ [][RateNext]_vars

BurstInit == InitCommon /\ tracing = TRUE /\ env = EnvDefault
BurstNext == (\E req \in OneClient : Request(req)) \/ (\E d \in WindowSteps : Tick(d))
BurstSpec == BurstInit /\ [][BurstNext]_vars

-----------------------------------------------------------------------------
(* Properties of the rate limiter *)

Limited == rlRes.route = "limiter"

\* C1: per identity, the requests of a fixed window (60 s counted from the
\* window's first request) are admitted exactly while they are among the
\* first 30; the 31st and later ones get 429; a request made after the window
\* elapsed, measured from the window's first request, is admitted and starts
\* a new window with count 1 whose start is the time of that request.
C1_FixedWindow ==
    Limited =>
        LET ip == rlRes.ip IN
        /\ (rlRes.status = "next") <=> (winSeen[ip] <= MAX_REQ)
        /\ (rlRes.status = "429") <=> (winSeen[ip] > MAX_REQ)
        /\ rlRes.status = "next" =>
              hits[ip] = [count |-> winSeen[ip], ts |-> winStart[ip]]
        /\ (rlRes.since >= 0 /\ rlRes.t - rlRes.since > WINDOW_MS)
              => (rlRes.status = "next" /\ hits[ip] = [count |-> 1, ts |-> rlRes.t])

\* the identity was rejected, its latest request is less than a window old,
\* and the next request is admitted into a new window all the same
C1_Witness ==
    /\ Limited
    /\ rlRes.status = "next"
    /\ rlRes.prev.route = "limiter"
    /\ rlRes.prev.status = "429"
    /\ rlRes.t - rlRes.prev.t < WINDOW_MS
    /\ hits[rlRes.ip] = [count |-> 1, ts |-> rlRes.t]

\* observer: the admitted requests the log holds, all within one window
\* length of the latest request
RECURSIVE SumOver(_, _)
SumOver(log, T) ==
    IF T = {} THEN 0
    ELSE LET u == CHOOSE v \in T : TRUE IN log[u] + SumOver(log, T \ {u})

AdmittedInSpan == SumOver(admitLog, DOMAIN admitLog)

\* C9: the admitted requests of an identity inside any span of one window
\* length number at most 2 * 30; a rejected request leaves the identity's
\* record (count and window start) as it was; a stored count is at most 30.
C9_BurstBound ==
    /\ [](AdmittedInSpan <= 2 * MAX_REQ)
    /\ [](\A ip \in DOMAIN hits : hits[ip].count <= MAX_REQ)
    /\ [][\A req \in Requests : (Request(req) /\ rlRes'.status = "429") => hits' = hits]_vars

\* a window's last requests and the next window's first ones fall inside one
\* span: more than one window's capacity is admitted in it, and the
\* identity is then rejected
C9_Witness ==
    /\ AdmittedInSpan > MAX_REQ
    /\ Limited
    /\ rlRes.status = "429"

-----------------------------------------------------------------------------
(* Etsy OAuth helper routes: oauth_etsy.js *)

\* crypto.randomBytes(16): a value not produced before; the values are
\* numbered in the order in which they are drawn
StatePool == 1..MaxStates

\* b64url(crypto.randomBytes(32)): the verifier generated along with state s
Verifier(s) == <<"verifier", s>>

\* b64url(sha256(code_verifier)): the digest, never the verifier itself
CodeChallenge(v) == <<"S256", v>>

\* query parameters of the callback; "" and 0 stand for an absent parameter
Codes == {"", "c1"}
StateParams == StatePool \cup {0}

\* stateStore.get(state); undefined is <<>>
Lookup(store, s) == IF s \in DOMAIN store THEN store[s] ELSE <<>>

\* variant: the timer callback removes nothing
DeleteNothing(store, s) == store

\* stateStore.delete(state)
Delete(store, s) == [k \in DOMAIN store \ {s} |-> store[k]]

StartAuth ==
    /\ IF ~env.ETSY_API_KEY
       THEN /\ oauthRes' = [route |-> "start", status |-> 400]
            /\ UNCHANGED <<stateStore, timers, issued>>
       ELSE \E s \in StatePool \ DOMAIN issued :
            /\ \A u \in StatePool \ DOMAIN issued : s <= u
            /\ stateStore' = Put(stateStore, s, Verifier(s))
            /\ timers' = timers \cup {[state |-> s, due |-> now + TTL_MS]}
            /\ issued' = Put(issued, s, now)
            /\ oauthRes' = [route |-> "start", status |-> 302, state |-> s,
                            code_challenge |-> CodeChallenge(Verifier(s))]
    /\ UNCHANGED <<fired, used, exchanges, pending>>
    /\ UNCHANGED <<rateVars, searchVars>>

\* the setTimeout callback of line 31
TimerFire(t) ==
    /\ t \in timers
    /\ now >= t.due
    /\ stateStore' = Delete(stateStore, t.state)
    /\ timers' = timers \ {t}
    /\ fired' = fired \cup {t.state}
    /\ UNCHANGED <<issued, used, exchanges, pending, oauthRes>>
    /\ UNCHANGED <<rateVars, searchVars>>

\* the callback up to its await: the lookup, the 400, or the POST to the
\* token endpoint
Callback(code, state) ==
    LET code_verifier == Lookup(stateStore, state) IN
    /\ IF code = "" \/ code_verifier = <<>>
       THEN /\ oauthRes' = [route |-> "callback", status |-> 400,
                            code |-> code, state |-> state]
            /\ UNCHANGED <<exchanges, pending, used>>
       ELSE /\ Len(exchanges) < MaxExchanges
            /\ exchanges' = Append(exchanges,
                   [grant_type |-> "authorization_code", code |-> code,
                    code_verifier |-> code_verifier, state |-> state])
            /\ pending' = pending \cup {Len(exchanges) + 1}
            /\ used' = used \cup {state}
            /\ oauthRes' = [route |-> "callback", status |-> 0,
                            code |-> code, state |-> state]
    /\ UNCHANGED <<stateStore, timers, issued, fired>>
    /\ UNCHANGED <<rateVars, searchVars>>

\* the token endpoint answers (200 with the tokens) or axios throws (500)
ExchangeDone(n, ok) ==
    /\ n \in pending
    /\ pending' = pending \ {n}
    /\ oauthRes' = [route |-> "callback", status |-> IF ok THEN 200 ELSE 500,
                    code |-> exchanges[n].code, state |-> exchanges[n].state]
    /\ UNCHANGED <<stateStore, timers, issued, fired, used, exchanges>>
    /\ UNCHANGED <<rateVars, searchVars>>

OAuthInit ==
    /\ InitCommon
    /\ tracing = FALSE
    /\ env \in {[MOCK_MODE |-> TRUE, ETSY_API_KEY |-> k, ETSY_ACCESS_TOKEN |-> FALSE] :
                 k \in BOOLEAN}

OAuthNext ==
    \/ StartAuth
    \/ \E t \in timers : TimerFire(t)
    \/ \E c \in Codes, s \in StateParams : Callback(c, s)
    \/ \E n \in 1..MaxExchanges, ok \in BOOLEAN : ExchangeDone(n, ok)
    \/ \E d \in TtlSteps : Tick(d)

OAuthSpec == OAuthInit /\ [][OAuthNext]_vars

-----------------------------------------------------------------------------
(* Properties of the OAuth state store *)

\* C2: a state is single-use: once a callback with a code has passed the
\* state lookup, every later callback with the same state is answered 400
\* and posts nothing to the token endpoint.
C2_SingleUse ==
    [][\A c \in Codes, s \in StateParams :
          (Callback(c, s) /\ s \in used)
              => (oauthRes'.status = 400 /\ exchanges' = exchanges)]_vars

\* C8: every entry of the state store has a timer due 10 minutes after its
\* creation; once that timer has run the entry is gone, used or not, and a
\* callback with that state is answered 400 and posts nothing to the token
\* endpoint.
C8_TtlExpiry ==
    /\ [](\A s \in DOMAIN stateStore :
             [state |-> s, due |-> issued[s] + TTL_MS] \in timers)
    /\ [](\A s \in fired : s \notin DOMAIN stateStore /\ now >= issued[s] + TTL_MS)
    /\ [][\A c \in Codes, s \in StateParams :
             (Callback(c, s) /\ s \in fired)
                 => (oauthRes'.status = 400 /\ exchanges' = exchanges)]_vars

\* a state that a callback had used expired, and a callback with a code and
\* that state was then refused
C8_Witness ==
    /\ oauthRes.route = "callback"
    /\ oauthRes.status = 400
    /\ oauthRes.code # ""
    /\ oauthRes.state \in fired \cap used

-----------------------------------------------------------------------------
(* Search: utilities of server.js lines 52-54 *)

\* num(obj.field, d): a missing field is undefined, Number(undefined) is NaN
Num(obj, field, d) == IF field \in DOMAIN obj THEN obj[field] ELSE d

\* str(obj.field, d): a missing or blank value gives the default
Str(obj, field, blank, d) ==
    IF field \in DOMAIN obj /\ obj[field] # blank THEN obj[field] ELSE d

\* landed(p, s, t) = Math.round((p + s + t) * 100) / 100, in mills:
\* round half up to the next multiple of 10 mills
landed(p, s, t) == ((p + s + t + 5) \div 10) * 10

Min(a, b) == IF a < b THEN a ELSE b
Max(a, b) == IF a > b THEN a ELSE b

\* items.slice(0, n)
Slice(items, n) == SubSeq(items, 1, Min(n, Len(items)))

\* label.toLowerCase().includes(word) on the labels that occur
Includes(label, word) ==
    <<label, word>> \in
        { <<"Etsy", "etsy">>,
          <<"Shopify (Aggregator)", "shopify">>, <<"Shopify (Aggregator)", "aggregator">>,
          <<"Shopify (Curated)", "shopify">>, <<"Shopify (Curated)", "curated">> }

\* s.trim().toLowerCase() on the tokens that occur
TrimLower(tok) ==
    CASE tok = " Etsy"       -> "etsy"
      [] tok = "SHOPIFY_AGG" -> "shopify_agg"
      [] OTHER               -> tok

DefaultSources == <<"etsy", "shopify_agg", "shopify_curated">>

\* csv.split(",").map(trim, lower).filter(Boolean) as a set; the csv is the
\* sequence of its comma-separated tokens
ParseAllow(csv) == { TrimLower(csv[i]) : i \in 1..Len(csv) } \ {""}

(* mockItemsForQuery: server.js lines 57-65 *)

MockBase(q) ==
    << [source |-> "Etsy", title |-> <<q, "Alpha">>, rating |-> 47, reviews |-> 120,
        price |-> 19990, shipping |-> 4990, estimated_tax |-> 0, eta_days |-> 3],
       [source |-> "Shopify (Aggregator)", title |-> <<q, "Beta">>, rating |-> 46,
        reviews |-> 803, price |-> 27000, shipping |-> 9000, estimated_tax |-> 0,
        eta_days |-> 5],
       [source |-> "Etsy", title |-> <<q, "Gamma">>, rating |-> 44, reviews |-> 52,
        price |-> 16000, shipping |-> 6490, estimated_tax |-> 0, eta_days |-> 6],
       [source |-> "Shopify (Curated)", title |-> <<q, "Delta">>, rating |-> 48,
        reviews |-> 431, price |-> 31000, shipping |-> 0, estimated_tax |-> 0,
        eta_days |-> 4] >>

\* { ...it, landed_price: v }
WithLanded(it, v) ==
    [f \in DOMAIN it \cup {"landed_price"} |-> IF f = "landed_price" THEN v ELSE it[f]]

mockItemsForQuery(q) ==
    [i \in 1..Len(MockBase(q)) |->
        WithLanded(MockBase(q)[i],
                   landed(MockBase(q)[i].price, MockBase(q)[i].shipping,
                          MockBase(q)[i].estimated_tax))]

(* etsySearch (./sources/etsy.js): what the live adapter may hand back *)

EtsyCatalog ==
    { [source |-> "Etsy", title |-> "E1", rating |-> 47, reviews |-> 120,
       price |-> 20000, shipping |-> 4980, estimated_tax |-> 0, eta_days |-> 3,
       landed_price |-> 24980],
      [source |-> "Etsy", title |-> "E2", rating |-> 47, reviews |-> 120,
       price |-> 19990, shipping |-> 4990, estimated_tax |-> 0],
      [source |-> "Etsy", title |-> "E3", rating |-> 45, reviews |-> 10,
       price |-> 10000, shipping |-> 2000, estimated_tax |-> 500, eta_days |-> 2,
       landed_price |-> 9990],
      [source |-> "Etsy", title |-> "E4", rating |-> 49, reviews |-> 5,
       price |-> 10004, shipping |-> 0, estimated_tax |-> 1] }

NoDup(seq) == \A i, j \in 1..Len(seq) : i # j => seq[i] # seq[j]

EtsyLists ==
    UNION { { l \in [1..n -> EtsyCatalog] : NoDup(l) } : n \in 0..MaxAdapterItems }

\* the call resolves to a list, rejects, or resolves to something that is
\* not iterable
EtsyOutcomes ==
    { [kind |-> "ok", items |-> l] : l \in EtsyLists }
        \cup { [kind |-> "throw"], [kind |-> "malformed"] }

NotCalled == [kind |-> "not_called"]

(* searchAllSources: server.js lines 68-100 *)

\* items.push(...await etsySearch({ q, limit })) inside the try
EtsyPush(outcome) ==
    IF outcome.kind = "ok"
    THEN [threw |-> FALSE, items |-> outcome.items]
    ELSE [threw |-> TRUE, items |-> <<>>]

\* variant: no catch around the adapter call
CatchNothing(attempt) == attempt

\* catch (e) { logger.warn(...) }
Catch(attempt) ==
    IF attempt.threw THEN [threw |-> FALSE, items |-> <<>>] ELSE attempt

canEtsy(allow) ==
    ~env.MOCK_MODE /\ env.ETSY_API_KEY /\ env.ETSY_ACCESS_TOKEN /\ "etsy" \in allow

Allow(args) == ParseAllow(IF args.sourcesCsv = <<>> THEN DefaultSources ELSE args.sourcesCsv)

PassRating(it, minRating) == Num(it, "rating", 0) >= minRating
PassReviews(it, minReviews) == Num(it, "reviews", 0) >= minReviews
PassPrice(it, maxPrice) == Num(it, "price", 0) <= maxPrice

ApplyFilters(items, args) ==
    LET a == IF args.minRating > 0
             THEN SelectSeq(items, LAMBDA it : PassRating(it, args.minRating)) ELSE items
        b == IF args.minReviews > 0
             THEN SelectSeq(a, LAMBDA it : PassReviews(it, args.minReviews)) ELSE a
    IN  IF args.maxPrice > 0
        THEN SelectSeq(b, LAMBDA it : PassPrice(it, args.maxPrice)) ELSE b

\* line 91
Relanded(it) ==
    WithLanded(it, Num(it, "landed_price",
                       landed(Num(it, "price", 0), Num(it, "shipping", 0),
                              Num(it, "estimated_tax", 0))))

\* variant: a missing eta_days counts as 0
EtaKeyZero(it) == Num(it, "eta_days", 0)

EtaKey(it) == Num(it, "eta_days", ETA_DEFAULT)

\* lines 92-97: the first non-zero difference
Cmp(a, b) ==
    IF Num(a, "landed_price", 0) - Num(b, "landed_price", 0) # 0
    THEN Num(a, "landed_price", 0) - Num(b, "landed_price", 0)
    ELSE IF Num(b, "rating", 0) - Num(a, "rating", 0) # 0
    THEN Num(b, "rating", 0) - Num(a, "rating", 0)
    ELSE IF Num(b, "reviews", 0) - Num(a, "reviews", 0) # 0
    THEN Num(b, "reviews", 0) - Num(a, "reviews", 0)
    ELSE EtaKey(a) - EtaKey(b)

\* usecases.js lines 161-169: as Cmp, with num(x.eta_days) defaulting to 0
usecases_Cmp(a, b) ==
    IF Num(a, "landed_price", 0) - Num(b, "landed_price", 0) # 0
    THEN Num(a, "landed_price", 0) - Num(b, "landed_price", 0)
    ELSE IF Num(b, "rating", 0) - Num(a, "rating", 0) # 0
    THEN Num(b, "rating", 0) - Num(a, "rating", 0)
    ELSE IF Num(b, "reviews", 0) - Num(a, "reviews", 0) # 0
    THEN Num(b, "reviews", 0) - Num(a, "reviews", 0)
    ELSE Num(a, "eta_days", 0) - Num(b, "eta_days", 0)

\* the comparator in use: server.js lines 92-97 or usecases.js lines 161-169
Compare(a, b, orchestrator) ==
    IF orchestrator = "usecases" THEN usecases_Cmp(a, b) ELSE Cmp(a, b)

\* Array.prototype.sort(cmp): stable
RECURSIVE InsertSorted(_, _, _)
InsertSorted(x, sorted, orchestrator) ==
    IF sorted = <<>> THEN <<x>>
    ELSE IF Compare(Head(sorted), x, orchestrator) <= 0
         THEN <<Head(sorted)>> \o InsertSorted(x, Tail(sorted), orchestrator)
         ELSE <<x>> \o sorted

RECURSIVE SortBy(_, _)
SortBy(items, orchestrator) ==
    IF items = <<>> THEN <<>>
    ELSE InsertSorted(items[Len(items)],
                      SortBy(SubSeq(items, 1, Len(items) - 1), orchestrator),
                      orchestrator)

\* the merge of lines 70-85, on the outcome of the adapter call when it is made
Gather(args, outcome) ==
    LET allow == Allow(args)
        etsy  == IF canEtsy(allow) THEN Catch(EtsyPush(outcome))
                 ELSE [threw |-> FALSE, items |-> <<>>]
        shop  == IF "shopify_agg" \in allow \/ "shopify_curated" \in allow
                 THEN SelectSeq(mockItemsForQuery(args.q),
                             LAMBDA it : Includes(it.source, "shopify"))
                 ELSE <<>>
        items == etsy.items \o shop
    IN  [threw |-> etsy.threw,
         items |-> IF Len(items) = 0 THEN mockItemsForQuery(args.q) ELSE items]

searchAllSources(args, outcome) ==
    LET got == Gather(args, outcome) IN
    IF got.threw THEN [threw |-> TRUE, items |-> <<>>]
    ELSE LET kept == ApplyFilters(got.items, args)
             relanded == [i \in 1..Len(kept) |-> Relanded(kept[i])]
         IN [threw |-> FALSE, items |-> Slice(SortBy(relanded, "server"), args.limit)]

(* GET /search: server.js lines 103-118 *)

\* the parsed parameters; a missing query parameter is a missing field, and
\* str(req.query.sources, default) is the token sequence or the default
ParseQuery(query) ==
    [q |-> Str(query, "q", "", ""),
     limit |-> Max(1, Min(LIMIT_MAX, Num(query, "limit", LIMIT_DEFAULT))),
     minRating |-> Num(query, "minRating", 0),
     minReviews |-> Num(query, "minReviews", 0),
     maxPrice |-> Num(query, "maxPrice", 0),
     sourcesCsv |-> Str(query, "sources", <<>>, DefaultSources)]

Called(query, outcome) ==
    IF Str(query, "q", "", "") # "" /\ canEtsy(Allow(ParseQuery(query))) THEN outcome ELSE NotCalled

GetSearch(query, outcome) ==
    LET args == ParseQuery(query)
        out  == searchAllSources(args, outcome)
    IN  /\ searchRes' =
             IF args.q = ""
             THEN [route |-> "search", query |-> query, args |-> args,
                   etsy |-> NotCalled, status |-> 400, items |-> <<>>]
             ELSE IF out.threw
             THEN [route |-> "search", query |-> query, args |-> args,
                   etsy |-> Called(query, outcome), status |-> 500, items |-> <<>>]
             ELSE [route |-> "search", query |-> query, args |-> args,
                   etsy |-> Called(query, outcome), status |-> 200, items |-> out.items]
        /\ UNCHANGED env
        /\ UNCHANGED <<rateVars, oauthVars>>

\* res.json(...) has been sent
Respond ==
    /\ searchRes # NoRes
    /\ searchRes' = NoRes
    /\ UNCHANGED env
    /\ UNCHANGED <<rateVars, oauthVars>>

(* usecases.js: the mock-only orchestrator (lines 134-191), its endpoint    *)
(* (lines 194-213) and searchCheapest (lines 2-9)                           *)

\* lines 145-152
AllowedLabel(allow, label) ==
    \/ "etsy" \in allow /\ Includes(label, "etsy")
    \/ "shopify_agg" \in allow /\ Includes(label, "aggregator")
    \/ "shopify_curated" \in allow /\ Includes(label, "curated")

usecases_searchAllSources(args) ==
    LET all == mockItemsForQuery(args.q)
        allowed == IF args.sourcesCsv # <<>>
                   THEN SelectSeq(all, LAMBDA it : AllowedLabel(ParseAllow(args.sourcesCsv), it.source))
                   ELSE all
    IN  SortBy(ApplyFilters(allowed, args), "usecases")

usecases_GetSearch(query) ==
    LET args == ParseQuery(query) IN
    /\ searchRes' =
         IF args.q = ""
         THEN [route |-> "usecases_search", query |-> query, args |-> args,
               etsy |-> NotCalled, status |-> 400, items |-> <<>>]
         ELSE [route |-> "usecases_search", query |-> query, args |-> args,
               etsy |-> NotCalled, status |-> 200,
               items |-> Slice(usecases_searchAllSources(args), args.limit)]
    /\ UNCHANGED env
    /\ UNCHANGED <<rateVars, oauthVars>>

Sample(q) ==
    << [source |-> "Etsy", title |-> <<q, "Alpha">>, rating |-> 47, reviews |-> 120,
        price |-> 19990, shipping |-> 4990, estimated_tax |-> 0,
        landed_price |-> 24980, eta_days |-> 3],
       [source |-> "Shopify (Aggregator)", title |-> <<q, "Beta">>, rating |-> 46,
        reviews |-> 803, price |-> 27000, shipping |-> 9000, estimated_tax |-> 0,
        landed_price |-> 36000, eta_days |-> 5] >>

searchCheapest(args) ==
    Slice(IF args.maxPrice > 0
          THEN SelectSeq(Sample(args.q), LAMBDA x : x.landed_price <= args.maxPrice)
          ELSE Sample(args.q),
          args.limit)

\* a caller hands searchCheapest a parsed search request
CallSearchCheapest(query) ==
    LET args == ParseQuery(query) IN
    /\ args.q # ""
    /\ searchRes' = [route |-> "searchCheapest", query |-> query, args |-> args,
                     etsy |-> NotCalled, status |-> 200, items |-> searchCheapest(args)]
    /\ UNCHANGED env
    /\ UNCHANGED <<rateVars, oauthVars>>

(* The requests and environments explored *)

EmptyRec == [x \in {} |-> 0]
Opt(field, values) == {EmptyRec} \cup { [x \in {field} |-> v] : v \in values }
Merge(r1, r2) == [f \in DOMAIN r1 \cup DOMAIN r2 |-> IF f \in DOMAIN r1 THEN r1[f] ELSE r2[f]]

SourcesChoices ==
    { <<"etsy">>, <<"shopify_agg">>, <<"shopify_curated">>, <<" Etsy", "SHOPIFY_AGG">>,
      <<"amazon">>, <<"", "">>, <<"etsy", "shopify_curated">> }

Queries ==
    { Merge(a, Merge(b, Merge(c, Merge(d, Merge(e, f))))) :
        a \in Opt("q", {"mug"}),
        b \in Opt("limit", {0, 2, 200}),
        c \in Opt("minRating", {45, 47}),
        d \in Opt("minReviews", {100, 500}),
        e \in Opt("maxPrice", {25000, 20000, -5000}),
        f \in Opt("sources", SourcesChoices) }

Envs ==
    { [MOCK_MODE |-> TRUE, ETSY_API_KEY |-> FALSE, ETSY_ACCESS_TOKEN |-> FALSE],
      [MOCK_MODE |-> FALSE, ETSY_API_KEY |-> TRUE, ETSY_ACCESS_TOKEN |-> TRUE],
      [MOCK_MODE |-> FALSE, ETSY_API_KEY |-> TRUE, ETSY_ACCESS_TOKEN |-> FALSE],
      [MOCK_MODE |-> TRUE, ETSY_API_KEY |-> TRUE, ETSY_ACCESS_TOKEN |-> TRUE] }

SearchInit == InitCommon /\ tracing = FALSE /\ env \in Envs

\* one request is in hand at a time: the next is taken once the response
\* to the last has been sent
Idle == searchRes = NoRes

SearchNext ==
    \/ Idle /\ \E query \in Queries, outcome \in EtsyOutcomes : GetSearch(query, outcome)
    \/ Idle /\ \E query \in Queries : usecases_GetSearch(query)
    \/ Idle /\ \E query \in Queries : CallSearchCheapest(query)
    \/ Respond

SearchSpec == SearchInit /\ [][SearchNext]_vars

-----------------------------------------------------------------------------
(* Properties of the search results *)

Answered == searchRes.route # "none" /\ searchRes.status = 200

Has(it, field) == field \in DOMAIN it

\* C3: every listing of every result carries
\* landed_price = round2(price + shipping + estimated_tax), whatever the
\* adapter supplied.
C3_LandedConsistent ==
    Answered =>
        \A i \in 1..Len(searchRes.items) :
            LET it == searchRes.items[i] IN
            /\ Has(it, "landed_price")
            /\ it.landed_price = landed(it.price, it.shipping, it.estimated_tax)

\* C4: every listing of every result respects the filters of the request
\* whose bound is positive: price <= maxPrice, rating >= minRating,
\* reviews >= minReviews.
C4_FiltersRespected ==
    Answered =>
        \A i \in 1..Len(searchRes.items) :
            LET it == searchRes.items[i]
                args == searchRes.args
            IN /\ args.maxPrice > 0 => it.price <= args.maxPrice
               /\ args.minRating > 0 => it.rating >= args.minRating
               /\ args.minReviews > 0 => it.reviews >= args.minReviews

\* eta_days ascending, a listing without eta_days after those that have one
EtaOrdered(a, b) ==
    IF Has(b, "eta_days") THEN Has(a, "eta_days") /\ a.eta_days <= b.eta_days ELSE TRUE

InOrder(a, b) ==
    \/ a.landed_price < b.landed_price
    \/ /\ a.landed_price = b.landed_price
       /\ \/ a.rating > b.rating
          \/ /\ a.rating = b.rating
             /\ \/ a.reviews > b.reviews
                \/ a.reviews = b.reviews /\ EtaOrdered(a, b)

C6_MugExample ==
    (/\ searchRes.route = "search"
     /\ env.MOCK_MODE
     /\ searchRes.query = [q |-> "mug", maxPrice |-> 25000, minRating |-> 45])
        => /\ searchRes.status = 200
           /\ Len(searchRes.items) = 1
           /\ searchRes.items[1].landed_price = 24980
           /\ searchRes.items[1].rating = 47

AdapterFailed == searchRes.etsy.kind \in {"throw", "malformed"}

SourceKey(label) ==
    CASE label = "Etsy" -> "etsy"
      [] label = "Shopify (Aggregator)" -> "shopify_agg"
      [] label = "Shopify (Curated)" -> "shopify_curated"

\* C10: every listing of every result belongs to a source whose key is in
\* the request's parsed sources set.
C10_SourcesRespected ==
    Answered =>
        \A i \in 1..Len(searchRes.items) :
            SourceKey(searchRes.items[i].source) \in ParseAllow(searchRes.args.sourcesCsv)

=============================================================================
